---------------------------- MODULE Spec2Model ----------------------------
(***************************************************************************)
(* A model of backend/dtl_processor_web.py: DTLWebProcessor, the pipeline  *)
(* upload materialisation -> discovery -> binary decode -> export ->       *)
(* archive.                                                                *)
(*                                                                         *)
(* Text.  A Python str is a sequence of text chunks.  "/", "." and the     *)
(* digits are single characters; every other chunk ("DataLogCO2Days",      *)
(* ".dtl", "etc", ...) stands for that run of characters, none of which is *)
(* "/" and, except for the leading dot of an extension chunk, none of      *)
(* which is ".".  Bytes are sequences of integers 0..255.                  *)
(*                                                                         *)
(* Paths.  A pathlib path is the sequence of its parts; the root part is   *)
(* <<"/">> (or <<"/","/">>), any other part is a non-empty text without    *)
(* "/".                                                                    *)
(***************************************************************************)
EXTENDS Integers, Sequences, FiniteSets, TLC

VARIABLES
    pc,          \* position of process_uploads / process_directory
    uploads,     \* the list of UploadedItem given to process_uploads
    openpyxl,    \* whether `import openpyxl` succeeds in this environment
    fs,          \* the file system: [dirs, files] (files: set of [path, content])
    index,       \* _materialise_uploads' loop index
    tempLive,    \* the TemporaryDirectory exists
    tempMade,    \* a TemporaryDirectory was ever created by this call
    walk,        \* the order in which os.walk listed the .dtl candidates
    discovery,   \* FileDiscovery, or None
    decoded,     \* _decode_all_files' dict, as a sequence of DecodedFile in insertion order
    export_root, \* the export folder's path once it was created, or None
    exported,    \* [exported_files, files_by_type] once export ran, or None
    result,      \* the ProcessingResult returned, or None
    raised,      \* the exception that left process_uploads, or None
    parse_call,  \* arguments of a direct _parse_dtl_file call: [file_type, bytes, tz]
    parse_ret,   \* the DataFrame it returned, or None
    custom_columns, \* the custom_columns argument: a dict, <<>> for None or {}
    archive_label   \* the archive_label argument: a str, or None

vars == <<pc, uploads, openpyxl, fs, index, tempLive, tempMade, walk, discovery, decoded,
          export_root, exported, result, raised, parse_call, parse_ret, custom_columns,
          archive_label>>

None == <<>>

----------------------------------------------------------------------------
(* Bounds of the model.                                                    *)

MaxUploads == 2      \* uploads in one batch
MaxPackets == 3      \* packets in a file given directly to _parse_dtl_file
MaxFiles == 2        \* files in a directory given directly to the scanner

----------------------------------------------------------------------------
(* Sequence helpers.                                                       *)

Range(s) == { s[i] : i \in DOMAIN s }

IsPrefix(p, s) == Len(p) <= Len(s) /\ SubSeq(s, 1, Len(p)) = p

EndsWith(s, suffix) ==
    Len(suffix) <= Len(s) /\ SubSeq(s, Len(s) - Len(suffix) + 1, Len(s)) = suffix

\* Python's `needle in haystack` for str
Contains(haystack, needle) ==
    \E i \in 0..(Len(haystack) - Len(needle)) :
        SubSeq(haystack, i + 1, i + Len(needle)) = needle

RECURSIVE Flatten(_)
Flatten(ss) == IF ss = <<>> THEN <<>> ELSE Head(ss) \o Flatten(Tail(ss))

RECURSIVE Repeat(_, _)
Repeat(x, n) == IF n = 0 THEN <<>> ELSE <<x>> \o Repeat(x, n - 1)

\* every ordering of a finite set, as sequences
RECURSIVE Orderings(_)
Orderings(S) ==
    IF S = {} THEN { <<>> }
    ELSE UNION { { <<x>> \o rest : rest \in Orderings(S \ {x}) } : x \in S }

----------------------------------------------------------------------------
(* str.lower(), chunk by chunk.                                            *)

LowerChunk(c) ==
    CASE c = ".DTL" -> ".dtl"
      [] c = ".Dtl" -> ".dtl"
      [] c = "X" -> "x"
      [] c = "DataLogCO2Days" -> "datalogco2days"
      [] c = "DataLogCO2Months" -> "datalogco2months"
      [] c = "DataLogCO2Year" -> "datalogco2year"
      [] c = "DataLogDoorClose" -> "datalogdoorclose"
      [] c = "DataLogDoorDays" -> "datalogdoordays"
      [] c = "DataLogDoorMonth" -> "datalogdoormonth"
      [] c = "DataLogDoorOpen" -> "datalogdooropen"
      [] c = "DataLogDoorYear" -> "datalogdooryear"
      [] c = "DataLogWasteDays" -> "datalogwastedays"
      [] c = "DataLogWasteMont" -> "datalogwastemont"
      [] c = "DataLogWasteYear" -> "datalogwasteyear"
      [] c = "DataLogWeighDiff" -> "datalogweighdiff"
      [] c = "TrendTemperature" -> "trendtemperature"
      [] c = "WeightDay" -> "weightday"
      [] c = "Other" -> "other"
      [] OTHER -> c

Lower(s) == [i \in DOMAIN s |-> LowerChunk(s[i])]

----------------------------------------------------------------------------
(* The file-type registry, in the dict's insertion order.                  *)

FileTypeOrder ==
    << "co2days", "co2months", "co2year", "doorclose", "doordays", "doormonth",
       "dooropen", "dooryear", "wastedays", "wastemont", "wasteyear",
       "weightdiff", "trendtemp", "weightday" >>

FileTypes == Range(FileTypeOrder)

\* the glob of a type: "*" followed by literal text
Pattern(file_type) ==
    CASE file_type = "co2days"    -> <<"*", "DataLogCO2Days", ".dtl">>
      [] file_type = "co2months"  -> <<"*", "DataLogCO2Months", ".dtl">>
      [] file_type = "co2year"    -> <<"*", "DataLogCO2Year", ".dtl">>
      [] file_type = "doorclose"  -> <<"*", "DataLogDoorClose", ".dtl">>
      [] file_type = "doordays"   -> <<"*", "DataLogDoorDays", ".dtl">>
      [] file_type = "doormonth"  -> <<"*", "DataLogDoorMonth", ".dtl">>
      [] file_type = "dooropen"   -> <<"*", "DataLogDoorOpen", ".dtl">>
      [] file_type = "dooryear"   -> <<"*", "DataLogDoorYear", ".dtl">>
      [] file_type = "wastedays"  -> <<"*", "DataLogWasteDays", ".dtl">>
      [] file_type = "wastemont"  -> <<"*", "DataLogWasteMont", ".dtl">>
      [] file_type = "wasteyear"  -> <<"*", "DataLogWasteYear", ".dtl">>
      [] file_type = "weightdiff" -> <<"*", "DataLogWeighDiff", ".dtl">>
      [] file_type = "trendtemp"  -> <<"*", "TrendTemperature", ".dtl">>
      [] file_type = "weightday"  -> <<"*", "WeightDay", ".dtl">>

HeaderLength(file_type) ==
    CASE file_type \in {"co2days", "doordays", "wastedays"} -> 39
      [] file_type \in {"co2months", "doormonth", "wastemont"} -> 44
      [] file_type \in {"co2year", "dooryear", "wasteyear"} -> 43
      [] file_type \in {"doorclose", "dooropen", "weightdiff", "trendtemp",
                        "weightday"} -> 46

\* fnmatch.fnmatch on a POSIX host (os.path.normcase is the identity there):
\* "*" matches any run of characters, every other pattern chunk itself.
RECURSIVE fnmatch(_, _)
fnmatch(filename, pattern) ==
    IF pattern = <<>> THEN filename = <<>>
    ELSE IF Head(pattern) = "*"
         THEN \E k \in 0..Len(filename) :
                  fnmatch(SubSeq(filename, k + 1, Len(filename)), Tail(pattern))
         ELSE /\ filename # <<>>
              /\ Head(filename) = Head(pattern)
              /\ fnmatch(Tail(filename), Tail(pattern))


----------------------------------------------------------------------------
(* datetime.fromtimestamp(unix_timestamp, tz) and strftime.                *)
(* A 32-bit unsigned timestamp is kept as its four little-endian bytes;    *)
(* sums are arranged so that no intermediate value leaves 32 bits.         *)

DigitChars == <<"0", "1", "2", "3", "4", "5", "6", "7", "8", "9">>

RECURSIVE Decimal(_)
Decimal(n) == IF n < 10 THEN <<DigitChars[n + 1]>>
              ELSE Decimal(n \div 10) \o <<DigitChars[(n % 10) + 1]>>

\* "%02d"
TwoDigits(n) == IF n < 10 THEN <<"0">> \o Decimal(n) ELSE Decimal(n)

\* the code point of a character of a rendered date or time
CodePoint(c) ==
    CASE c = "-" -> 45
      [] c = ":" -> 58
      [] OTHER -> 47 + CHOOSE d \in 1..10 : DigitChars[d] = c

\* str.__lt__: lexicographic by code point
RECURSIVE StrLess(_, _)
StrLess(a, b) ==
    IF b = <<>> THEN FALSE
    ELSE IF a = <<>> THEN TRUE
    ELSE IF Head(a) # Head(b) THEN CodePoint(Head(a)) < CodePoint(Head(b))
    ELSE StrLess(Tail(a), Tail(b))

\* days since 1970-01-01 and second of the day of the UTC instant, by
\* dividing by 128 and then by 675 (128 * 675 = 86400)
UtcDaySecond(ts_bytes) ==
    LET lo == ts_bytes[1] + 256 * ts_bytes[2]
        hi == ts_bytes[3] + 256 * ts_bytes[4]
        q  == hi * 512 + (lo \div 128)
    IN  [day |-> q \div 675, second |-> (q % 675) * 128 + (lo % 128)]

\* the proleptic Gregorian date of a day number (days since 1970-01-01)
CivilFromDays(day) ==
    LET z   == day + 719468
        era == z \div 146097
        doe == z - era * 146097
        yoe == (doe - (doe \div 1460) + (doe \div 36524) - (doe \div 146096)) \div 365
        doy == doe - (365 * yoe + (yoe \div 4) - (yoe \div 100))
        mp  == (5 * doy + 2) \div 153
        d   == doy - ((153 * mp + 2) \div 5) + 1
        m   == IF mp < 10 THEN mp + 3 ELSE mp - 9
        y   == yoe + era * 400 + (IF m <= 2 THEN 1 ELSE 0)
    IN  [year |-> y, month |-> m, day |-> d]

\* datetime.fromtimestamp(ts, tz=tz) for a fixed-offset tz, utcoffset in seconds
FromTimestamp(ts_bytes, tz) ==
    LET u     == UtcDaySecond(ts_bytes)
        local == u.second + tz
        civil == CivilFromDays(u.day + (local \div 86400))
        sod   == local % 86400
    IN  [year |-> civil.year, month |-> civil.month, day |-> civil.day,
         hour |-> sod \div 3600, minute |-> (sod % 3600) \div 60, second |-> sod % 60]

\* dt.strftime("%Y-%m-%d")
StrfDate(dt) ==
    Decimal(dt.year) \o <<"-">> \o TwoDigits(dt.month) \o <<"-">> \o TwoDigits(dt.day)

\* dt.strftime("%H:%M:%S")
StrfTime(dt) ==
    TwoDigits(dt.hour) \o <<":">> \o TwoDigits(dt.minute) \o <<":">> \o TwoDigits(dt.second)

----------------------------------------------------------------------------
(* struct.unpack on the value bytes.                                       *)

\* struct.unpack("<i", b): little-endian two's complement
UnpackInt32(b) ==
    LET low == b[1] + 256 * b[2] + 65536 * b[3]
        top == IF b[4] >= 128 THEN b[4] - 256 ELSE b[4]
    IN  top * 16777216 + low

\* struct.unpack("<f", b): the IEEE-754 binary32 fields of the little-endian word
UnpackFloat32(b) ==
    [sign |-> b[4] \div 128,
     exponent |-> (b[4] % 128) * 2 + (b[3] \div 128),
     mantissa |-> (b[3] % 128) * 65536 + b[2] * 256 + b[1]]

PacketSize == 9

\* _decode_dtl_packet; None is the "unparseable" signal.  Neither unpack can
\* fail on four bytes, and fromtimestamp cannot fail for a 32-bit timestamp
\* and a fixed-offset zone (years 1969..2106).
_decode_dtl_packet(packet, use_integer_encoding, tz) ==
    IF Len(packet) # PacketSize THEN None
    ELSE LET dt == FromTimestamp(SubSeq(packet, 1, 4), tz)
             ms_data == packet[5]
             data_value ==
                 IF use_integer_encoding
                 THEN [encoding |-> "int32", int |-> UnpackInt32(SubSeq(packet, 6, 9))]
                 ELSE [encoding |-> "float32", float |-> UnpackFloat32(SubSeq(packet, 6, 9))]
         IN  [date_full |-> StrfDate(dt),
              time_full |-> StrfTime(dt),
              ms |-> ms_data * 10,
              value |-> data_value]

----------------------------------------------------------------------------
(* The File Validator and the File Decoder.  A pandas DataFrame is its     *)
(* column labels and its rows; a file is read as its bytes.                *)

RawColumns == <<"date_full", "time_full", "ms", "value">>

EmptyDataFrame == [columns |-> RawColumns, rows |-> <<>>]

\* _validate_dtl_file for a path that exists and can be stat'ed
_validate_dtl_file(file_size, header_length) ==
    IF file_size < header_length THEN FALSE
    ELSE (file_size - header_length) % PacketSize = 0

door_patterns == { <<"DataLogDoorDays">>, <<"DataLogDoorMonth">>, <<"DataLogDoorYear">> }

\* line 223: any(pattern in filepath.name for pattern in door_patterns)
use_integer_encoding(name) == \E pattern \in door_patterns : Contains(name, pattern)

\* file.seek(header_length), then file.read(9) until fewer than 9 bytes come
RECURSIVE ReadPackets(_, _)
ReadPackets(bytes, offset) ==
    IF Len(bytes) - offset < PacketSize THEN <<>>
    ELSE <<SubSeq(bytes, offset + 1, offset + PacketSize)>>
         \o ReadPackets(bytes, offset + PacketSize)

\* the loop body of lines 238-240: undecodable packets are skipped
RECURSIVE DecodeRecords(_, _, _)
DecodeRecords(packets, integer, tz) ==
    IF packets = <<>> THEN <<>>
    ELSE LET d == _decode_dtl_packet(Head(packets), integer, tz)
         IN  (IF d = None THEN <<>> ELSE <<d>>) \o DecodeRecords(Tail(packets), integer, tz)

\* the sort key of df.sort_values(["date_full", "time_full"])
KeyLess(a, b) ==
    \/ StrLess(a.date_full, b.date_full)
    \/ a.date_full = b.date_full /\ StrLess(a.time_full, b.time_full)

\* insert r after the last row that is not greater (a stable sort)
RECURSIVE InsertSorted(_, _)
InsertSorted(sorted, r) ==
    IF sorted = <<>> THEN <<r>>
    ELSE IF KeyLess(r, Head(sorted)) THEN <<r>> \o sorted
    ELSE <<Head(sorted)>> \o InsertSorted(Tail(sorted), r)

\* the sort's result thrown away (df.sort_values(...) without the assignment)
SortValuesDiscarded(rows) == rows

RECURSIVE SortValues(_)
SortValues(rows) ==
    IF rows = <<>> THEN <<>>
    ELSE InsertSorted(SortValues(SubSeq(rows, 1, Len(rows) - 1)), rows[Len(rows)])

\* _parse_dtl_file(filepath, header_length, file_type) for an existing,
\* readable file named `name` holding `bytes`; tz is self.tz
_parse_dtl_file(name, bytes, header_length, file_type, tz) ==
    IF ~_validate_dtl_file(Len(bytes), header_length) THEN EmptyDataFrame
    ELSE LET records == DecodeRecords(ReadPackets(bytes, header_length),
                                      use_integer_encoding(name), tz)
         IN  IF records = <<>> THEN EmptyDataFrame
             ELSE [columns |-> RawColumns, rows |-> SortValues(records)]

----------------------------------------------------------------------------
(* pathlib.                                                                *)

Slash == <<"/">>
DotDot == <<".", ".">>

\* str.split("/")
RECURSIVE SplitSlash(_)
SplitSlash(s) ==
    IF \A i \in DOMAIN s : s[i] # "/" THEN <<s>>
    ELSE LET i == CHOOSE k \in DOMAIN s :
                      s[k] = "/" /\ \A j \in 1..(k - 1) : s[j] # "/"
         IN  <<SubSeq(s, 1, i - 1)>> \o SplitSlash(SubSeq(s, i + 1, Len(s)))

\* PurePosixPath(s).parts: the root ("/", or "//" for exactly two leading
\* slashes) and then the components that are neither empty nor "."
PurePosixParts(s) ==
    LET leading == IF \A i \in DOMAIN s : s[i] = "/" THEN Len(s)
                   ELSE (CHOOSE k \in DOMAIN s :
                             s[k] # "/" /\ \A j \in 1..(k - 1) : s[j] = "/") - 1
        root == IF leading = 0 THEN <<>>
                ELSE IF leading = 2 THEN << <<"/", "/">> >>
                ELSE <<Slash>>
        Real(c) == c # <<>> /\ c # <<".">>
    IN  root \o SelectSeq(SplitSlash(s), Real)

IsRootPart(part) == part = Slash \/ part = <<"/", "/">>

IsAbsolute(path) == path # <<>> /\ IsRootPart(Head(path))

\* pathlib's a / b: an absolute b replaces a
JoinPath(a, b) == IF IsAbsolute(b) THEN b ELSE a \o b

\* Path.parent
Parent(path) == IF Len(path) <= 1 THEN path ELSE SubSeq(path, 1, Len(path) - 1)

\* Path.name of a path with at least one component
Name(path) == path[Len(path)]

\* the chunks that hold a "." : the lone dot and the extension chunks
HasDot(c) == c \in {".", ".dtl", ".DTL", ".Dtl", ".txt", ".xlsx"}

\* PurePath.stem: the name up to its last dot, unless that dot is the name's
\* first or last character
Stem(name) ==
    LET dots == { i \in DOMAIN name : HasDot(name[i]) }
    IN  IF dots = {} THEN name
        ELSE LET i == CHOOSE k \in dots : \A j \in dots : j <= k
             IN  IF i = 1 \/ (i = Len(name) /\ name[i] = ".") THEN name
                 ELSE SubSeq(name, 1, i - 1)

FallbackName == <<"unnamed_uploaded_file", ".dtl">>

\* _safe_relative_path(filename): the parts of Path(*normalized_parts)
_safe_relative_path(filename) ==
    LET Kept(part) == part # DotDot /\ part # <<>>
        normalized_parts == SelectSeq(PurePosixParts(filename), Kept)
    IN  IF normalized_parts = <<>> THEN <<FallbackName>> ELSE normalized_parts

\* the path with every ".." step taken and "//" read as "/", as the kernel
\* resolves it when no symbolic link is involved
RECURSIVE Resolve(_)
Resolve(path) ==
    IF path = <<>> THEN <<>>
    ELSE LET front == Resolve(SubSeq(path, 1, Len(path) - 1))
             last  == path[Len(path)]
         IN  IF IsRootPart(last) THEN <<Slash>>
             ELSE IF last = DotDot THEN Parent(front)
             ELSE front \o <<last>>

\* path is root or lies below it
IsInside(root, path) == IsPrefix(Resolve(root), Resolve(path))

----------------------------------------------------------------------------
(* The file system: the directories and the regular files with their       *)
(* content.  The process may or may not be allowed to write outside its    *)
(* temporary directory (`writable`).                                       *)

TempRoot == <<Slash, <<"tmp">>, <<"tmpdir">>>>

UploadsRoot == TempRoot \o << <<"uploads">> >>

PasswdPath == <<Slash, <<"etc">>, <<"passwd">>>>

\* the host before the request
InitialFs ==
    [dirs  |-> { <<Slash>>, <<Slash, <<"etc">>>>, <<Slash, <<"tmp">>>> },
     files |-> { [path |-> PasswdPath, content |-> <<114, 111, 111, 116>>,
                  sheet |-> None] }]

IsFile(f, path) == \E x \in f.files : x.path = path

IsDir(f, path) == path \in f.dirs

InTemp(path) == IsPrefix(TempRoot, path)

\* Path.mkdir(parents=True, exist_ok=True)
MkdirP(f, raw_path, writable) ==
    LET path == Resolve(raw_path)
        prefixes == { SubSeq(path, 1, k) : k \in 1..Len(path) }
    IN  IF \E q \in prefixes : IsFile(f, q)
        THEN [fs |-> f, err |-> IF IsFile(f, path) THEN "FileExistsError"
                                ELSE "NotADirectoryError"]
        ELSE IF ~writable /\ \E q \in prefixes : ~IsDir(f, q) /\ ~InTemp(q)
        THEN [fs |-> f, err |-> "PermissionError"]
        ELSE [fs |-> [f EXCEPT !.dirs = @ \cup prefixes], err |-> ""]

\* Path.write_bytes(content) / open("wb") and copy, the parent being a directory
WriteBytes(f, raw_path, content, writable) ==
    LET path == Resolve(raw_path)
    IN  IF IsDir(f, path) THEN [fs |-> f, err |-> "IsADirectoryError"]
        ELSE IF ~writable /\ ~InTemp(path) THEN [fs |-> f, err |-> "PermissionError"]
        ELSE [fs |-> [f EXCEPT !.files = { x \in @ : x.path # path }
                                          \cup { [path |-> path, content |-> content,
                                                   sheet |-> None] }],
              err |-> ""]

\* target.parent.mkdir(parents=True, exist_ok=True); write the file
MkdirAndWrite(f, target, content, writable) ==
    LET made == MkdirP(f, Parent(target), writable)
    IN  IF made.err # "" THEN made ELSE WriteBytes(made.fs, target, content, writable)

\* shutil.rmtree of the temporary directory
RemoveTree(f, root) ==
    [dirs  |-> { d \in f.dirs : ~IsPrefix(root, d) },
     files |-> { x \in f.files : ~IsPrefix(root, x.path) }]

----------------------------------------------------------------------------
(* The Upload Materializer.  An UploadedItem's content is either plain     *)
(* bytes or a ZIP archive (zipfile.is_zipfile), read as its member list.   *)

\* ZipInfo.is_dir()
ZipIsDir(member) == member.filename # <<>> /\ member.filename[Len(member.filename)] = "/"

\* _safe_extract_zip(zf, destination), from member number k on
RECURSIVE _safe_extract_zip(_, _, _, _, _)
_safe_extract_zip(f, members, destination, writable, k) ==
    IF k > Len(members) THEN [fs |-> f, err |-> ""]
    ELSE LET member == members[k]
             member_path == JoinPath(destination, _safe_relative_path(member.filename))
             step == IF ZipIsDir(member) THEN MkdirP(f, member_path, writable)
                     ELSE MkdirAndWrite(f, member_path, member.data, writable)
         IN  IF step.err # "" THEN step
             ELSE _safe_extract_zip(step.fs, members, destination, writable, k + 1)

\* one round of _materialise_uploads' loop, for item number `i` (from 0)
MaterialiseOne(f, item, i, destination_root, writable) ==
    LET filename == IF item.filename # <<>> THEN item.filename
                    ELSE <<"upload_">> \o Decimal(i) \o <<".dtl">>
    IN  IF item.content.zip
        THEN LET subfolder == JoinPath(destination_root, << <<"archive_">> \o Decimal(i) >>)
                 made == MkdirP(f, subfolder, writable)
             IN  IF made.err # "" THEN made
                 ELSE _safe_extract_zip(made.fs, item.content.members, subfolder, writable, 1)
        ELSE LET relative_path == _safe_relative_path(filename)
                 target_path == JoinPath(destination_root, relative_path)
             IN  MkdirAndWrite(f, target_path, item.content.bytes, writable)

----------------------------------------------------------------------------
(* The Discovery Scanner.                                                  *)

\* the regular files of the tree below `dir`, in every order os.walk can
\* list them: a directory's own files (in scandir's order), then each
\* sub-directory's tree (again in scandir's order)
RECURSIVE WalkOrders(_, _)
RECURSIVE WalkSubdirs(_, _)
WalkSubdirs(f, dirs) ==
    IF dirs = <<>> THEN { <<>> }
    ELSE { a \o b : a \in WalkOrders(f, Head(dirs)), b \in WalkSubdirs(f, Tail(dirs)) }

WalkOrders(f, dir) ==
    LET own  == { x.path : x \in { y \in f.files : Parent(y.path) = dir /\ y.path # dir } }
        subs == { d \in f.dirs : Parent(d) = dir /\ d # dir }
    IN  UNION { { files \o below : files \in Orderings(own), below \in WalkSubdirs(f, order) }
                : order \in Orderings(subs) }

\* the index in the registry of the first type whose glob matches, 0 if none
FirstMatch(filename) ==
    LET hits == { i \in DOMAIN FileTypeOrder : fnmatch(filename, Pattern(FileTypeOrder[i])) }
    IN  IF hits = {} THEN 0 ELSE CHOOSE i \in hits : \A j \in hits : i <= j

EmptyDiscovery ==
    [type_counts |-> [t \in FileTypes |-> 0],
     total_recognized |-> 0,
     unrecognized_count |-> 0,
     found_files |-> [t \in FileTypes |-> <<>>]]

\* the loop body without the extension test of lines 153-154
ScanOneAnyExtension(d, full_path) ==
    LET filename == Name(full_path)
        m == FirstMatch(filename)
    IN  IF m = 0 THEN [d EXCEPT !.unrecognized_count = @ + 1]
        ELSE LET file_type == FileTypeOrder[m]
             IN  [d EXCEPT
                    !.type_counts[file_type] = @ + 1,
                    !.found_files[file_type] =
                        Append(@, [path |-> full_path,
                                   filename |-> filename,
                                   header_length |-> HeaderLength(file_type)]),
                    !.total_recognized = @ + 1]

\* the body of the loop over one listed file (lines 153-173)
ScanOne(d, full_path) ==
    LET filename == Name(full_path)
    IN  IF ~EndsWith(Lower(filename), <<".dtl">>) THEN d
        ELSE LET m == FirstMatch(filename)
             IN  IF m = 0 THEN [d EXCEPT !.unrecognized_count = @ + 1]
                 ELSE LET file_type == FileTypeOrder[m]
                      IN  [d EXCEPT
                             !.type_counts[file_type] = @ + 1,
                             !.found_files[file_type] =
                                 Append(@, [path |-> full_path,
                                            filename |-> filename,
                                            header_length |-> HeaderLength(file_type)]),
                             !.total_recognized = @ + 1]

\* _count_file_types_recursively(directory_path), os.walk listing `listed`
RECURSIVE ScanFrom(_, _)
ScanFrom(d, listed) ==
    IF listed = <<>> THEN d ELSE ScanFrom(ScanOne(d, Head(listed)), Tail(listed))

_count_file_types_recursively(listed) == ScanFrom(EmptyDiscovery, listed)

\* FileDiscovery.total_files
total_files(d) == d.total_recognized + d.unrecognized_count

----------------------------------------------------------------------------
(* _decode_all_files.  A Python dict is the sequence of its values in      *)
(* insertion order; storing under a key the dict holds replaces the value  *)
(* in place.                                                               *)

ContentOf(f, path) == (CHOOSE x \in f.files : x.path = path).content

DictStore(d, entry) ==
    IF \E i \in DOMAIN d : d[i].base_filename = entry.base_filename
    THEN [i \in DOMAIN d |-> IF d[i].base_filename = entry.base_filename
                             THEN entry ELSE d[i]]
    ELSE Append(d, entry)

\* the body of the inner loop (lines 260-275)
DecodeOne(f, file_type, file_info, tz) ==
    LET filepath == file_info.path
        header_length == file_info.header_length
        df == _parse_dtl_file(Name(filepath), ContentOf(f, filepath), header_length,
                              file_type, tz)
        original_filename == file_info.filename
        base_filename == Stem(original_filename)
    IN  [dataframe |-> df,
         file_type |-> file_type,
         source_file |-> filepath,
         original_filename |-> original_filename,
         base_filename |-> base_filename,
         record_count |-> Len(df.rows)]

\* every (file_type, file_info) of discovery.found_files in iteration order
FoundInOrder(d) ==
    Flatten([i \in DOMAIN FileTypeOrder |->
                [k \in DOMAIN d.found_files[FileTypeOrder[i]] |->
                    [file_type |-> FileTypeOrder[i],
                     file_info |-> d.found_files[FileTypeOrder[i]][k]]]])

RECURSIVE DecodeFrom(_, _, _, _)
DecodeFrom(acc, f, todo, tz) ==
    IF todo = <<>> THEN acc
    ELSE DecodeFrom(DictStore(acc, DecodeOne(f, Head(todo).file_type, Head(todo).file_info, tz)),
                    f, Tail(todo), tz)

_decode_all_files(d, f, tz) == DecodeFrom(<<>>, f, FoundInOrder(d), tz)

\* DecodedFile.is_empty
is_empty(decoded_file) == decoded_file.dataframe.rows = <<>>

----------------------------------------------------------------------------
(* The Export/Archive Builder.                                             *)

value_columns(file_type) ==
    CASE file_type \in {"co2days", "co2months", "co2year"} -> "CO2 Emissions Prevented (kg)"
      [] file_type = "doorclose"  -> "Instances of Door Closures"
      [] file_type = "doordays"   -> "Instances of Door Actions"
      [] file_type = "doormonth"  -> "Door Openings per Day"
      [] file_type = "dooropen"   -> "Instances of Door Openings"
      [] file_type = "dooryear"   -> "Door Openings per Day"
      [] file_type = "wastedays"  -> "Cummulative Waste per Day (kg)"
      [] file_type = "wastemont"  -> "Total Waste per Day (kg)"
      [] file_type = "wasteyear"  -> "Total Waste per day (kg)"
      [] file_type = "weightdiff" -> "Weight Difference across door open and close (kg)"
      [] file_type = "trendtemp"  -> "Recorded Temperature (degrees C)"  \* non-ASCII in the source
      [] file_type = "weightday"  -> "Recorded Weight (kg)"
      [] OTHER -> "Value"

\* _column_mapping(file_type): a dict, as a function on its keys
_column_mapping(file_type) ==
    [c \in Range(RawColumns) |->
        CASE c = "date_full" -> "Date"
          [] c = "time_full" -> "Time"
          [] c = "ms" -> "Milliseconds"
          [] c = "value" -> value_columns(file_type)]

\* dict.update
DictUpdate(mapping, other) ==
    [k \in DOMAIN mapping \cup DOMAIN other |->
        IF k \in DOMAIN other THEN other[k] ELSE mapping[k]]

\* DataFrame.rename(columns=mapping)
Rename(df, mapping) ==
    [df EXCEPT !.columns = [i \in DOMAIN df.columns |->
                               IF df.columns[i] \in DOMAIN mapping
                               THEN mapping[df.columns[i]] ELSE df.columns[i]]]

\* lines 333-339: the frame written for one DecodedFile
ExportFrame(decoded_file, overrides) ==
    IF is_empty(decoded_file) THEN decoded_file.dataframe
    ELSE Rename(decoded_file.dataframe,
                DictUpdate(_column_mapping(decoded_file.file_type), overrides))

\* DataFrame.to_excel(excel_path)
ToExcel(f, excel_path, df) ==
    IF IsDir(f, excel_path) THEN [fs |-> f, err |-> "IsADirectoryError"]
    ELSE [fs |-> [f EXCEPT !.files = { x \in @ : x.path # excel_path }
                                      \cup { [path |-> excel_path, content |-> <<>>,
                                               sheet |-> df] }],
          err |-> ""]

\* the loop of _export_to_excel from entry k on; out is
\* [fs, err, exported_files, files_by_type]
RECURSIVE ExportFrom(_, _, _, _, _)
ExportFrom(out, todo, output_root, overrides, k) ==
    IF k > Len(todo) THEN out
    ELSE LET decoded_file == todo[k]
             type_folder == output_root \o << <<decoded_file.file_type>> >>
             made == MkdirP(out.fs, type_folder, TRUE)
             excel_path == type_folder \o << decoded_file.base_filename \o <<".xlsx">> >>
             wrote == ToExcel(made.fs, excel_path, ExportFrame(decoded_file, overrides))
             counts == IF decoded_file.file_type \in DOMAIN out.files_by_type
                       THEN [out.files_by_type EXCEPT ![decoded_file.file_type] = @ + 1]
                       ELSE [t \in DOMAIN out.files_by_type \cup {decoded_file.file_type} |->
                                IF t = decoded_file.file_type THEN 1
                                ELSE out.files_by_type[t]]
             entry == [file_type |-> decoded_file.file_type,
                       relative_path |-> SubSeq(excel_path, Len(output_root), Len(excel_path)),
                       record_count |-> decoded_file.record_count]
         IN  IF made.err # "" THEN [out EXCEPT !.err = made.err]
             ELSE IF wrote.err # "" THEN [out EXCEPT !.err = wrote.err]
             ELSE ExportFrom([fs |-> wrote.fs, err |-> "",
                              exported_files |-> Append(out.exported_files, entry),
                              files_by_type |-> counts],
                             todo, output_root, overrides, k + 1)

\* _build_zip_bytes(folder_path, archive_name): the archive as the set of
\* its entries
_build_zip_bytes(f, folder_path, archive_name) ==
    { [name  |-> <<archive_name>> \o SubSeq(x.path, Len(folder_path) + 1, Len(x.path)),
       sheet |-> x.sheet]
      : x \in { y \in f.files : IsPrefix(folder_path, y.path) /\ y.path # folder_path } }

\* the characters of the class [A-Za-z0-9_-]; a label is a sequence of
\* single characters
AllowedChars ==
    { "A", "B", "C", "D", "E", "F", "G", "H", "I", "J", "K", "L", "M", "N",
      "O", "P", "Q", "R", "S", "T", "U", "V", "W", "X", "Y", "Z", "a", "b",
      "c", "d", "e", "f", "g", "h", "i", "j", "k", "l", "m", "n", "o", "p",
      "q", "r", "s", "t", "u", "v", "w", "x", "y", "z", "0", "1", "2", "3",
      "4", "5", "6", "7", "8", "9", "_", "-" }

\* what str.strip() removes
Whitespace == { " ", "\t", "\n", "\r" }

\* str.strip(chars): leading and trailing characters of the set removed
Strip(s, chars) ==
    LET kept == { i \in DOMAIN s : s[i] \notin chars }
    IN  IF kept = {} THEN <<>>
        ELSE SubSeq(s, CHOOSE i \in kept : \A j \in kept : i <= j,
                       CHOOSE i \in kept : \A j \in kept : j <= i)

\* re.sub(<class>{min,}, "-", s): every maximal run of at least min
\* characters of the set class becomes one "-"
ReSub(s, class, min) ==
    LET run_start(i) == IF \E j \in 1..i : s[j] \notin class
                        THEN 1 + CHOOSE j \in 1..i :
                                     /\ s[j] \notin class
                                     /\ \A k \in (j + 1)..i : s[k] \in class
                        ELSE 1
        run_end(i) == IF \E j \in i..Len(s) : s[j] \notin class
                      THEN (CHOOSE j \in i..Len(s) :
                                /\ s[j] \notin class
                                /\ \A k \in i..(j - 1) : s[k] \in class) - 1
                      ELSE Len(s)
        piece(i) == IF s[i] \notin class THEN <<s[i]>>
                    ELSE IF run_end(i) - run_start(i) + 1 < min THEN <<s[i]>>
                    ELSE IF i = run_start(i) THEN <<"-">>
                    ELSE <<>>
    IN  Flatten([i \in DOMAIN s |-> piece(i)])

DefaultLabel ==
    << "S", "y", "k", "e", "r", "_", "P", "r", "o", "c", "e", "s", "s", "e",
      "d", "_", "D", "a", "t", "a" >>

\* the characters of a text that are outside [A-Za-z0-9_-]
Disallowed(s) == { c \in Range(s) : c \notin AllowedChars }

\* line 281 alone: the "-{2,}" substitution of line 282 left out
SanitizeWithoutCollapse(label) ==
    LET stripped == Strip(label, Whitespace)
        sanitized == Strip(ReSub(stripped, Disallowed(stripped), 1), {"-", "_"})
    IN  IF sanitized = <<>> THEN DefaultLabel ELSE sanitized

\* lines 279-283
_sanitize_archive_label(label) ==
    LET stripped == Strip(label, Whitespace)
        first == ReSub(stripped, Disallowed(stripped), 1)
        sanitized == Strip(ReSub(first, {"-"}, 2), {"-", "_"})
    IN  IF sanitized = <<>> THEN DefaultLabel ELSE sanitized

\* line 386: archive_label or "Syker_Processed_Data"
base_label_input == IF archive_label \in {None, <<>>} THEN DefaultLabel ELSE archive_label

\* line 387
base_label == _sanitize_archive_label(base_label_input)

\* line 388; "YYYYMMDD" stands for datetime.now().strftime("%Y%m%d")
FolderName == base_label \o <<"-Converted", "YYYYMMDD">>

ExportRootOf(directory) == directory \o <<FolderName>>

\* lines 398-417: the ProcessingResult
MakeResult(f, d, decoded_files, out, root) ==
    [zip_filename |-> FolderName \o <<".zip">>,
     zip_bytes |-> _build_zip_bytes(f, root, FolderName),
     summary |-> [recognized_files |-> d.total_recognized,
                  unrecognized_files |-> d.unrecognized_count,
                  files_by_type |-> out.files_by_type,
                  empty_files |-> [i \in DOMAIN SelectSeq(decoded_files, is_empty) |->
                                      SelectSeq(decoded_files, is_empty)[i].original_filename],
                  failed_files |-> <<>>],
     exported_files |-> out.exported_files]

----------------------------------------------------------------------------
(* The uploads the model draws a batch from.                               *)

\* two packets, the later one first: 1970-01-02 00:00:00 with value bytes
\* FF FF FF FF, then 1970-01-01 00:00:00 with value bytes 00 00 80 3F
LaterPacket == <<128, 81, 1, 0, 7, 255, 255, 255, 255>>
EarlierPacket == <<0, 0, 0, 0, 255, 0, 0, 128, 63>>

Header(file_type) == Repeat(0, HeaderLength(file_type))

ValidBytes(file_type) == Header(file_type) \o LaterPacket \o EarlierPacket

Plain(bytes) == [zip |-> FALSE, bytes |-> bytes, members |-> <<>>]

Zip(members) == [zip |-> TRUE, bytes |-> <<80, 75>>, members |-> members]

TypeName(file_type) == <<"X", Pattern(file_type)[2], ".dtl">>

UploadPool ==
    { [filename |-> TypeName("co2days"), content |-> Plain(ValidBytes("co2days"))],
      \* the same name again, in a folder, one byte too long
      [filename |-> <<"sub", "/">> \o TypeName("co2days"),
       content |-> Plain(Header("co2days") \o LaterPacket \o <<1>>)],
      \* a CO2 file whose name also holds a door pattern
      [filename |-> <<"DataLogDoorDays", "_", "DataLogCO2Days", ".dtl">>,
       content |-> Plain(ValidBytes("co2days"))],
      \* no .dtl file, and a .dtl file no glob matches
      [filename |-> <<"notes", ".txt">>, content |-> Plain(<<1>>)],
      [filename |-> <<"X", "DataLogCO2Days", ".DTL">>,
       content |-> Plain(ValidBytes("co2days"))],
      \* something below a name that another upload makes a file
      [filename |-> TypeName("co2days") \o <<"/", "inner", ".dtl">>,
       content |-> Plain(<<1>>)],
      \* names that try to leave the destination
      [filename |-> <<"/", "etc", "/", "passwd">>, content |-> Plain(<<1>>)],
      [filename |-> <<".", ".", "/", ".", ".", "/", "etc", "/", "passwd">>,
       content |-> Plain(<<1>>)],
      [filename |-> <<>>, content |-> Plain(<<1>>)],
      \* an archive with a folder entry, a door file and a traversal entry
      [filename |-> <<"nested", ".zip">>,
       content |-> Zip(<< [filename |-> <<"sub", "/">>, data |-> <<>>],
                          [filename |-> <<"sub", "/", "dir", "/">> \o TypeName("dooropen"),
                           data |-> ValidBytes("dooropen")],
                          [filename |-> <<".", ".", "/", "evil", ".dtl">>,
                           data |-> <<1>>] >>)],
      \* an archive of traversal entries and a file shorter than its header
      [filename |-> <<"odd", ".zip">>,
       content |-> Zip(<< [filename |-> <<"a", "/", ".", ".", "/", ".", ".", "/", "b">>,
                           data |-> <<1>>],
                          [filename |-> <<".", ".">>, data |-> <<1>>],
                          [filename |-> TypeName("dooropen"), data |-> <<1, 2, 3, 4, 5>>] >>)],
      [filename |-> <<"empty", ".zip">>, content |-> Zip(<<>>)] }

UploadBatches == UNION { [1..n -> UploadPool] : n \in 0..MaxUploads }

\* DTLWebProcessor() keeps timezone.utc
DefaultTz == 0

----------------------------------------------------------------------------
(* process_uploads, step by step.                                          *)
(* The call is process_uploads(uploads): custom_columns and archive_label   *)
(* keep their default None; SpecExport and SpecLabel below vary them.      *)

Init ==
    /\ pc = "idle"
    /\ uploads = <<>>
    /\ openpyxl = TRUE
    /\ fs = InitialFs
    /\ index = 0
    /\ tempLive = FALSE
    /\ tempMade = FALSE
    /\ walk = <<>>
    /\ discovery = None
    /\ decoded = None
    /\ export_root = None
    /\ exported = None
    /\ result = None
    /\ raised = ""
    /\ parse_call = None
    /\ parse_ret = None
    /\ custom_columns = <<>>
    /\ archive_label = None

\* the batch checked only inside the with block
ProcessUploadsChecksLate(batch) ==
    /\ pc = "idle"
    /\ uploads' = batch
    /\ fs' = MkdirP(fs, UploadsRoot, TRUE).fs
    /\ tempLive' = TRUE
    /\ tempMade' = TRUE
    /\ IF batch = <<>>
       THEN raised' = "DTLProcessingError" /\ pc' = "cleanup"
       ELSE raised' = raised /\ pc' = "materialise"
    /\ UNCHANGED <<openpyxl, index, walk, discovery, decoded, export_root, exported,
                   result, parse_call, parse_ret,
                   custom_columns, archive_label>>

\* lines 426-428: the call and the check of the batch
ProcessUploads(batch) ==
    /\ pc = "idle"
    /\ uploads' = batch
    /\ IF batch = <<>>
       THEN raised' = "DTLProcessingError" /\ pc' = "done"
       ELSE raised' = raised /\ pc' = "mkdtemp"
    /\ UNCHANGED <<openpyxl, fs, index, tempLive, tempMade, walk, discovery, decoded,
                   export_root, exported, result, parse_call, parse_ret,
                   custom_columns, archive_label>>

\* lines 430-433: enter the TemporaryDirectory, make uploads/
EnterTempDir ==
    /\ pc = "mkdtemp"
    /\ fs' = MkdirP(fs, UploadsRoot, TRUE).fs
    /\ tempLive' = TRUE
    /\ tempMade' = TRUE
    /\ index' = 0
    /\ pc' = "materialise"
    /\ UNCHANGED <<uploads, openpyxl, walk, discovery, decoded, export_root, exported,
                   result, raised, parse_call, parse_ret,
                   custom_columns, archive_label>>

\* one round of the loop of _materialise_uploads (line 435); an OSError
\* leaves through the with block
MaterialiseItem ==
    /\ pc = "materialise"
    /\ \E writable \in BOOLEAN :
         LET r == MaterialiseOne(fs, uploads[index + 1], index, UploadsRoot, writable)
         IN  /\ fs' = r.fs
             /\ IF r.err # ""
                THEN raised' = r.err /\ pc' = "cleanup" /\ index' = index
                ELSE /\ raised' = raised
                     /\ index' = index + 1
                     /\ pc' = IF index + 1 = Len(uploads) THEN "scan" ELSE "materialise"
    /\ UNCHANGED <<uploads, openpyxl, tempLive, tempMade, walk, discovery, decoded,
                   export_root, exported, result, parse_call, parse_ret,
                   custom_columns, archive_label>>

\* the scan with line 380 testing total_files instead of total_recognized
DiscoverChecksTotalFiles ==
    /\ pc = "scan"
    /\ \E listed \in WalkOrders(fs, UploadsRoot) :
         /\ walk' = listed
         /\ discovery' = _count_file_types_recursively(listed)
    /\ IF total_files(discovery') = 0
       THEN raised' = "DTLProcessingError" /\ pc' = "cleanup"
       ELSE raised' = raised /\ pc' = "decode"
    /\ UNCHANGED <<uploads, openpyxl, fs, index, tempLive, tempMade, decoded, export_root,
                   exported, result, parse_call, parse_ret,
                   custom_columns, archive_label>>

\* process_directory, lines 375-381: uploads/ exists; scan it
Discover ==
    /\ pc = "scan"
    /\ \E listed \in WalkOrders(fs, UploadsRoot) :
         /\ walk' = listed
         /\ discovery' = _count_file_types_recursively(listed)
    /\ IF discovery'.total_recognized = 0
       THEN raised' = "DTLProcessingError" /\ pc' = "cleanup"
       ELSE raised' = raised /\ pc' = "decode"
    /\ UNCHANGED <<uploads, openpyxl, fs, index, tempLive, tempMade, decoded, export_root,
                   exported, result, parse_call, parse_ret,
                   custom_columns, archive_label>>

\* line 383
DecodeAll ==
    /\ pc = "decode"
    /\ decoded' = _decode_all_files(discovery, fs, DefaultTz)
    /\ pc' = "mkexport"
    /\ UNCHANGED <<uploads, openpyxl, fs, index, tempLive, tempMade, walk, discovery,
                   export_root, exported, result, raised, parse_call, parse_ret,
                   custom_columns, archive_label>>

\* lines 385-390
MakeExportRoot ==
    /\ pc = "mkexport"
    /\ LET made == MkdirP(fs, ExportRootOf(UploadsRoot), TRUE)
       IN  /\ fs' = made.fs
           /\ IF made.err # ""
              THEN raised' = made.err /\ pc' = "cleanup" /\ export_root' = export_root
              ELSE raised' = raised /\ pc' = "export"
                   /\ export_root' = ExportRootOf(UploadsRoot)
    /\ UNCHANGED <<uploads, openpyxl, index, tempLive, tempMade, walk, discovery, decoded,
                   exported, result, parse_call, parse_ret,
                   custom_columns, archive_label>>

\* lines 392-396: _export_to_excel, whose import of openpyxl may fail
ExportToExcel ==
    /\ pc = "export"
    /\ \E importable \in BOOLEAN :
         /\ openpyxl' = importable
         /\ IF ~importable
            THEN /\ raised' = "DTLProcessingError"
                 /\ pc' = "cleanup"
                 /\ UNCHANGED <<fs, exported>>
            ELSE LET out == ExportFrom([fs |-> fs, err |-> "", exported_files |-> <<>>,
                                        files_by_type |-> <<>>],
                                       decoded, export_root, custom_columns, 1)
                 IN  /\ fs' = out.fs
                     /\ IF out.err # ""
                        THEN raised' = out.err /\ pc' = "cleanup" /\ exported' = exported
                        ELSE /\ raised' = raised
                             /\ pc' = "zip"
                             /\ exported' = [exported_files |-> out.exported_files,
                                             files_by_type |-> out.files_by_type]
    /\ UNCHANGED <<uploads, index, tempLive, tempMade, walk, discovery, decoded,
                   export_root, result, parse_call, parse_ret,
                   custom_columns, archive_label>>

\* lines 398-417 and the return of line 443
BuildResult ==
    /\ pc = "zip"
    /\ result' = MakeResult(fs, discovery, decoded, exported, export_root)
    /\ pc' = "cleanup"
    /\ UNCHANGED <<uploads, openpyxl, fs, index, tempLive, tempMade, walk, discovery,
                   decoded, export_root, exported, raised, parse_call, parse_ret,
                   custom_columns, archive_label>>

\* a temporary directory removed by hand after the work, so only on return
ExitTempDirOnReturnOnly ==
    /\ pc = "cleanup"
    /\ IF raised = ""
       THEN fs' = RemoveTree(fs, TempRoot) /\ tempLive' = FALSE
       ELSE UNCHANGED <<fs, tempLive>>
    /\ pc' = "done"
    /\ UNCHANGED <<uploads, openpyxl, index, tempMade, walk, discovery, decoded,
                   export_root, exported, result, raised, parse_call, parse_ret,
                   custom_columns, archive_label>>

\* TemporaryDirectory.__exit__: the tree is removed, on return and on raise
ExitTempDir ==
    /\ pc = "cleanup"
    /\ fs' = RemoveTree(fs, TempRoot)
    /\ tempLive' = FALSE
    /\ pc' = "done"
    /\ UNCHANGED <<uploads, openpyxl, index, tempMade, walk, discovery, decoded,
                   export_root, exported, result, raised, parse_call, parse_ret,
                   custom_columns, archive_label>>

Next ==
    \/ \E batch \in UploadBatches : ProcessUploads(batch)
    \/ EnterTempDir
    \/ MaterialiseItem
    \/ Discover
    \/ DecodeAll
    \/ MakeExportRoot
    \/ ExportToExcel
    \/ BuildResult
    \/ ExitTempDir

Spec == Init /\ [][Next]_vars

----------------------------------------------------------------------------
(* A direct call of process_directory's scan on a directory holding a few  *)
(* files.                                                                  *)

ScanNames ==
    { TypeName(t) : t \in FileTypes }
    \cup { <<"DataLogDoorDays", "_", "DataLogCO2Days", ".dtl">>,
           <<"X", "DataLogDoorDays", "WeightDay", ".dtl">>,
           <<"WeightDay", ".dtl">>,
           <<"X", "Other", ".dtl">>,
           <<"X", "DataLogCO2Days", ".DTL">>,
           <<"X", "DataLogCO2Days", ".dtl", ".txt">>,
           <<"notes", ".txt">> }

\* paths below the scanned directory
ScanCandidates ==
    { <<n>> : n \in ScanNames }
    \cup { << <<"sub">>, TypeName("co2days") >>, << <<"sub">>, <<"X", "Other", ".dtl">> >> }

ScanTrees == UNION { { Range(f) : f \in [1..n -> ScanCandidates] } : n \in 0..MaxFiles }

TreeFs(tree) ==
    [dirs  |-> InitialFs.dirs
               \cup { SubSeq(UploadsRoot, 1, k) : k \in 1..Len(UploadsRoot) }
               \cup UNION { { UploadsRoot \o SubSeq(rel, 1, k) : k \in 1..(Len(rel) - 1) }
                            : rel \in tree },
     files |-> { [path |-> UploadsRoot \o rel, content |-> <<>>, sheet |-> None]
                 : rel \in tree }]

InitScan ==
    /\ pc = "scan"
    /\ uploads = <<>>
    /\ openpyxl = TRUE
    /\ \E tree \in ScanTrees : fs = TreeFs(tree)
    /\ index = 0
    /\ tempLive = FALSE
    /\ tempMade = FALSE
    /\ walk = <<>>
    /\ discovery = None
    /\ decoded = None
    /\ export_root = None
    /\ exported = None
    /\ result = None
    /\ raised = ""
    /\ parse_call = None
    /\ parse_ret = None
    /\ custom_columns = <<>>
    /\ archive_label = None

NextScan == Discover

SpecScan == InitScan /\ [][NextScan]_vars

----------------------------------------------------------------------------
(* A direct call of the File Decoder: _parse_dtl_file on a file of a known *)
(* type made of a header of the type's length and whole packets.           *)

\* 1970-01-01 00:00:00, 00:00:59, 23:59:59; 1970-01-02 00:00:00;
\* 2000-02-29 00:00:00; 2038-01-19 03:14:08; 2106-02-07 06:28:15 (all UTC)
PacketPool ==
    { <<0, 0, 0, 0, 0, 0, 0, 128, 63>>,
      <<59, 0, 0, 0, 1, 255, 255, 255, 255>>,
      <<127, 81, 1, 0, 255, 0, 0, 192, 127>>,
      <<128, 81, 1, 0, 7, 1, 0, 0, 0>>,
      <<0, 12, 187, 56, 50, 0, 0, 0, 128>>,
      <<0, 0, 0, 128, 99, 210, 4, 0, 0>>,
      <<255, 255, 255, 255, 100, 0, 0, 0, 0>> }

\* utcoffset of self.tz in seconds: UTC-01:00, UTC, UTC+05:30
TzPool == { -3600, 0, 19800 }

ParseTypes == { "co2days", "co2year", "wastemont", "doordays", "dooropen" }

PacketSeqs == UNION { [1..n -> PacketPool] : n \in 0..MaxPackets }

InitParse ==
    /\ pc = "parse"
    /\ uploads = <<>>
    /\ openpyxl = TRUE
    /\ fs = InitialFs
    /\ index = 0
    /\ tempLive = FALSE
    /\ tempMade = FALSE
    /\ walk = <<>>
    /\ discovery = None
    /\ decoded = None
    /\ export_root = None
    /\ exported = None
    /\ result = None
    /\ raised = ""
    /\ \E t \in ParseTypes, packets \in PacketSeqs, tz \in TzPool :
         parse_call = [file_type |-> t, name |-> TypeName(t), packets |-> packets,
                       bytes |-> Header(t) \o Flatten(packets), tz |-> tz]
    /\ parse_ret = None
    /\ custom_columns = <<>>
    /\ archive_label = None

ParseFile ==
    /\ pc = "parse"
    /\ parse_ret' = _parse_dtl_file(parse_call.name, parse_call.bytes,
                                    HeaderLength(parse_call.file_type),
                                    parse_call.file_type, parse_call.tz)
    /\ pc' = "parsed"
    /\ UNCHANGED <<uploads, openpyxl, fs, index, tempLive, tempMade, walk, discovery,
                   decoded, export_root, exported, result, raised, parse_call,
                   custom_columns, archive_label>>

NextParse == ParseFile

SpecParse == InitParse /\ [][NextParse]_vars

----------------------------------------------------------------------------
(* A direct call of the Export/Archive Builder: _export_to_excel on a dict *)
(* of decoded tables, an existing output root and custom_columns.          *)

MaxTables == 2       \* decoded tables handed to _export_to_excel

ExportTypes == { "co2days", "dooropen", "wastemont", "weightday" }

\* the DecodedFile _decode_all_files builds for a file of the type with
\* this content
ExportTable(file_type, content) ==
    LET df == _parse_dtl_file(TypeName(file_type), content, HeaderLength(file_type),
                              file_type, DefaultTz)
    IN  [dataframe |-> df,
         file_type |-> file_type,
         source_file |-> UploadsRoot \o <<TypeName(file_type)>>,
         original_filename |-> TypeName(file_type),
         base_filename |-> Stem(TypeName(file_type)),
         record_count |-> Len(df.rows)]

\* a file of two packets, and a file one byte longer than its header
ExportContents(file_type) == { ValidBytes(file_type), Header(file_type) \o <<1>> }

\* dicts of up to MaxTables tables, their keys (base filenames) distinct
ExportDicts ==
    UNION { { d \in [1..n -> UNION { { ExportTable(t, c) : c \in ExportContents(t) }
                                      : t \in ExportTypes }] :
                \A i, j \in 1..n : d[i].base_filename = d[j].base_filename => i = j }
            : n \in 1..MaxTables }

\* no override, an override of the value label, overrides of two other
\* columns
CustomColumnsPool ==
    { <<>>,
      [c \in {"value"} |-> "Reading"],
      [c \in {"date_full", "ms"} |-> IF c = "date_full" THEN "Day" ELSE "Millis"] }

InitExport ==
    /\ archive_label = None
    /\ pc = "export"
    /\ uploads = <<>>
    /\ openpyxl = TRUE
    /\ fs = MkdirP(InitialFs, ExportRootOf(UploadsRoot), TRUE).fs
    /\ index = 0
    /\ tempLive = FALSE
    /\ tempMade = FALSE
    /\ walk = <<>>
    /\ discovery = None
    /\ decoded \in ExportDicts
    /\ export_root = ExportRootOf(UploadsRoot)
    /\ exported = None
    /\ result = None
    /\ raised = ""
    /\ parse_call = None
    /\ parse_ret = None
    /\ custom_columns \in CustomColumnsPool

NextExport == ExportToExcel

SpecExport == InitExport /\ [][NextExport]_vars

----------------------------------------------------------------------------
(* A direct call of process_directory with an archive_label, on a          *)
(* directory holding one recognised file, taken up where the folder is     *)
(* named (line 385).                                                       *)

MaxLabel == 4        \* characters of an archive_label

\* a letter, a digit, the two separators of the class, a blank and a
\* character outside the class
LabelChars == { "a", "7", "_", "-", " ", "!" }

LabelPool == {None} \cup UNION { [1..n -> LabelChars] : n \in 0..MaxLabel }

LabelTree == { <<TypeName("co2days")>> }

InitLabel ==
    /\ pc = "mkexport"
    /\ uploads = <<>>
    /\ openpyxl = TRUE
    /\ fs = TreeFs(LabelTree)
    /\ index = 0
    /\ tempLive = FALSE
    /\ tempMade = FALSE
    /\ walk \in WalkOrders(fs, UploadsRoot)
    /\ discovery = _count_file_types_recursively(walk)
    /\ decoded = _decode_all_files(discovery, fs, DefaultTz)
    /\ export_root = None
    /\ exported = None
    /\ result = None
    /\ raised = ""
    /\ parse_call = None
    /\ parse_ret = None
    /\ custom_columns = <<>>
    /\ archive_label \in LabelPool

NextLabel == MakeExportRoot

SpecLabel == InitLabel /\ [][NextLabel]_vars

----------------------------------------------------------------------------
(* Properties.                                                             *)

\* the regular files and the directories the request added to, or changed
\* on, the host
Touched ==
    { x.path : x \in fs.files \ InitialFs.files } \cup (fs.dirs \ InitialFs.dirs)

OnlyDotDots(filename) ==
    \A i \in DOMAIN SplitSlash(filename) :
        SplitSlash(filename)[i] \in { <<>>, <<".">>, DotDot }

DtlListed == SelectSeq(walk, LAMBDA path : EndsWith(Lower(Name(path)), <<".dtl">>))

Matching(filename) == { t \in FileTypes : fnmatch(filename, Pattern(t)) }

FoundUnder(file_type) ==
    { discovery.found_files[file_type][k].path : k \in DOMAIN discovery.found_files[file_type] }

RECURSIVE SumOver(_, _)
SumOver(f, S) ==
    IF S = {} THEN 0
    ELSE LET t == CHOOSE u \in S : TRUE IN f[t] + SumOver(f, S \ {t})

DoorTypes == { "doorclose", "doordays", "doormonth", "dooropen", "dooryear" }

Encodings(decoded_file) ==
    { decoded_file.dataframe.rows[i].value.encoding : i \in DOMAIN decoded_file.dataframe.rows }

\* C1: whatever _materialise_uploads and _safe_extract_zip write lies inside
\* the destination root, for every upload name and archive-entry name, and a
\* name of only empty and ".." segments is sanitised to the fallback name.
C1_WritesStayInsideDestination ==
    /\ \A path \in Touched : path = TempRoot \/ IsInside(UploadsRoot, path)
    /\ \A i \in DOMAIN uploads :
         OnlyDotDots(uploads[i].filename) =>
             _safe_relative_path(uploads[i].filename) = <<FallbackName>>

\* C2: every decoded file of a door-count type (dooropen, doorclose, doordays,
\* doormonth, dooryear) has each value decoded as a signed 32-bit integer.
C2_DoorFilesDecodedAsInteger ==
    \A i \in DOMAIN decoded :
        decoded[i].file_type \in DoorTypes => Encodings(decoded[i]) \subseteq {"int32"}

\* C3: the encoding is a function of the file type alone: every decoded file
\* of a non-door type is decoded as float, and two files of the same type are
\* never decoded with different encodings.
C3_EncodingDependsOnTypeOnly ==
    /\ \A i \in DOMAIN decoded :
         decoded[i].file_type \notin DoorTypes => Encodings(decoded[i]) \subseteq {"float32"}
    /\ \A i, j \in DOMAIN decoded :
         decoded[i].file_type = decoded[j].file_type =>
             Cardinality(Encodings(decoded[i]) \cup Encodings(decoded[j])) <= 1

\* C4: a run that returns a result exported one tabular file per recognised
\* source file: the manifest's length, the sum of files_by_type and the number
\* of files in the archive all equal summary.recognized_files.
C4_OneExportPerRecognisedFile ==
    result # None =>
        /\ Len(result.exported_files) = result.summary.recognized_files
        /\ SumOver(result.summary.files_by_type, DOMAIN result.summary.files_by_type)
               = result.summary.recognized_files
        /\ Cardinality(result.zip_bytes) = result.summary.recognized_files

\* C5: a recognised file whose size minus its header length is no multiple of
\* 9 decodes to the empty table, the batch completes, and the file's original
\* filename is listed in summary.empty_files.
C5_MisalignedFilesListedAsEmpty ==
    (pc = "cleanup" /\ result # None) =>
        \A t \in FileTypes : \A k \in DOMAIN discovery.found_files[t] :
            LET info == discovery.found_files[t][k]
                bytes == ContentOf(fs, info.path)
            IN  (Len(bytes) - info.header_length) % PacketSize # 0 =>
                    /\ _parse_dtl_file(info.filename, bytes, info.header_length, t,
                                       DefaultTz) = EmptyDataFrame
                    /\ info.filename \in Range(result.summary.empty_files)

\* C6: process_uploads on an empty batch raises DTLProcessingError before any
\* temporary directory is created or any file is written.
C6_EmptyBatchRaisesFirst ==
    (pc # "idle" /\ uploads = <<>>) =>
        /\ raised = "DTLProcessingError"
        /\ pc = "done"
        /\ ~tempMade
        /\ fs = InitialFs
        /\ result = None

C6_Witness == pc = "done" /\ uploads = <<>> /\ raised = "DTLProcessingError"

\* C7: when the scanned tree holds no recognised .dtl file, process_directory
\* raises DTLProcessingError before export begins: nothing is decoded, no
\* export folder exists, nothing is exported and no archive is returned.
C7_NoRecognisedFilesRaisesBeforeExport ==
    (discovery # None /\ discovery.total_recognized = 0) =>
        /\ raised = "DTLProcessingError"
        /\ pc \in {"cleanup", "done"}
        /\ decoded = None
        /\ export_root = None
        /\ ~IsDir(fs, ExportRootOf(UploadsRoot))
        /\ \A x \in fs.files : x.sheet = None
        /\ exported = None
        /\ result = None

\* an empty tree, and a tree with only unrecognised files, were both scanned
C7_Witness ==
    /\ pc = "done"
    /\ discovery # None
    /\ discovery.total_recognized = 0
    /\ discovery.unrecognized_count > 0
    /\ raised = "DTLProcessingError"

\* C8: the scanner puts a .dtl file whose name matches a type's glob under
\* that type and no other; a .dtl file matching no glob adds one to
\* unrecognized_count and is in no found_files list; total_recognized +
\* unrecognized_count is the number of .dtl files of the tree, and
\* type_counts[t] is the length of found_files[t].
C8_ScannerClassifiesEachFileOnce ==
    discovery # None =>
        /\ \A i \in DOMAIN DtlListed : \A t \in FileTypes :
             (DtlListed[i] \in FoundUnder(t)) <=> (t \in Matching(Name(DtlListed[i])))
        /\ \A i \in DOMAIN DtlListed : Cardinality(Matching(Name(DtlListed[i]))) <= 1
        /\ \A t \in FileTypes : FoundUnder(t) \subseteq Range(DtlListed)
        /\ discovery.unrecognized_count =
               Cardinality({ i \in DOMAIN DtlListed : Matching(Name(DtlListed[i])) = {} })
        /\ total_files(discovery) = Len(DtlListed)
        /\ \A t \in FileTypes :
             /\ discovery.type_counts[t] = Len(discovery.found_files[t])
             /\ Cardinality(FoundUnder(t)) = Len(discovery.found_files[t])
        /\ (pc = "decode" =>
               Range(walk) = { x.path : x \in { y \in fs.files : IsPrefix(UploadsRoot, y.path) } })

\* a scan that met a recognised file and an unrecognised .dtl file
C8_Witness ==
    /\ pc = "decode"
    /\ discovery # None
    /\ discovery.total_recognized = 1
    /\ discovery.unrecognized_count = 1

TempTreeGone ==
    /\ ~tempLive
    /\ \A d \in fs.dirs : ~IsPrefix(TempRoot, d)
    /\ \A x \in fs.files : ~IsPrefix(TempRoot, x.path)

\* C9: once process_uploads has returned or raised, whatever the exit path,
\* the temporary directory it created and everything under it are gone.
C9_TempDirRemovedOnEveryExit == pc = "done" => TempTreeGone

\* the exits: a result, a failure while materialising, no recognised file,
\* an export error
C9_Witness ==
    /\ pc = "done"
    /\ tempMade
    /\ raised \notin {"", "DTLProcessingError"}

\* the timestamp of a packet as (high half, low half), and its order
TsPair(packet) == <<packet[3] + 256 * packet[4], packet[1] + 256 * packet[2]>>

TsLess(p, q) ==
    \/ TsPair(p)[1] < TsPair(q)[1]
    \/ TsPair(p)[1] = TsPair(q)[1] /\ TsPair(p)[2] < TsPair(q)[2]

Bijections(S) == { f \in [S -> S] : \A a, b \in S : f[a] = f[b] => a = b }

\* C10: a file of a known type made of a header of the right size and N
\* packets decodes to exactly N rows, one per packet (ms = byte 4 x 10, date
\* and time those of the packet's timestamp), ascending by (date, time), which
\* is the ascending order of the packets' 32-bit timestamps.
C10_DecodedTableIsSortedPermutation ==
    pc = "parsed" =>
        LET packets == parse_call.packets
            rows == parse_ret.rows
            N == Len(packets)
        IN  /\ Len(rows) = N
            /\ \E order \in Bijections(1..N) :
                 /\ \A i \in 1..N :
                      LET packet == packets[order[i]]
                          dt == FromTimestamp(SubSeq(packet, 1, 4), parse_call.tz)
                      IN  /\ rows[i].ms = packet[5] * 10
                          /\ rows[i].date_full = StrfDate(dt)
                          /\ rows[i].time_full = StrfTime(dt)
                 /\ \A i \in 1..(N - 1) : ~TsLess(packets[order[i + 1]], packets[order[i]])
            /\ \A i \in 1..(N - 1) : ~KeyLess(rows[i + 1], rows[i])
            /\ \A i, j \in 1..N :
                 TsLess(packets[i], packets[j]) =>
                     KeyLess(_decode_dtl_packet(packets[i], FALSE, parse_call.tz),
                             _decode_dtl_packet(packets[j], FALSE, parse_call.tz))

\* three packets given out of order, two of them on the same day
C10_Witness ==
    /\ pc = "parsed"
    /\ Len(parse_call.packets) = 3
    /\ TsLess(parse_call.packets[3], parse_call.packets[1])
    /\ TsLess(parse_call.packets[2], parse_call.packets[3])
    /\ Len(parse_ret.rows) = 3
    /\ parse_ret.rows[1].date_full = parse_ret.rows[2].date_full
    /\ parse_ret.rows[1].time_full # parse_ret.rows[2].time_full

\* the workbooks the export wrote: the files of the file system with a sheet
Workbooks == { x \in fs.files : x.sheet # None }

\* the header row the specification gives a table of this type: Date, Time,
\* Milliseconds and the type's value label, each replaced by its override
HumanReadableHeaders(file_type, overrides) ==
    [i \in DOMAIN RawColumns |->
        IF RawColumns[i] \in DOMAIN overrides THEN overrides[RawColumns[i]]
        ELSE CASE RawColumns[i] = "date_full" -> "Date"
               [] RawColumns[i] = "time_full" -> "Time"
               [] RawColumns[i] = "ms" -> "Milliseconds"
               [] RawColumns[i] = "value" -> value_columns(file_type)]

\* C11: every workbook _export_to_excel wrote, for an empty table as for any
\* other, has the header row Date, Time, Milliseconds, <value label of the
\* type>, each replaced by the caller's override for that column when given.
C11_ExportedHeadersAreHumanReadable ==
    \A x \in Workbooks :
        x.sheet.columns = HumanReadableHeaders(x.path[Len(x.path) - 1][1], custom_columns)

\* the label in the name of the export folder, which is the archive's name:
\* what stands before "-Converted" and the date
UsedLabel == SubSeq(Name(export_root), 1, Len(Name(export_root)) - 2)

AlphaNum == AllowedChars \ {"-", "_"}

============================================================================
